---- MODULE Spec2Model ----
(***************************************************************************)
(* Numeric reconciliation pipeline of the annual-reports archive:          *)
(*   src/src/08-smooth-numerics.py  (field reconciler, year summarizer,    *)
(*                                   batch driver main)                    *)
(*   src/src/09-get-pandas-df.py    (cross-sectional assembler)            *)
(*   src/src/10-smooth-series.py    (scale normalizer, winsorizer,         *)
(*                                   smoother, per-company series loop)    *)
(* and of the extraction stage that writes the attempt files:              *)
(*   src/src/05-structure-docs.py, src/src/06-structure-docs-async.py      *)
(*                                                                         *)
(* Encoding of Python/JSON values.  An optional value is a sequence of     *)
(* length at most one: None (Python None, JSON null) is <<>>, Some(x) is   *)
(* <<x>>.  A JSON object is a function from its keys to optional values.   *)
(* Numbers found in attempt files are integers; the means computed by      *)
(* statistics.mean are exact rationals [num, den] in lowest terms.         *)
(***************************************************************************)
EXTENDS Integers, Sequences, FiniteSets, TLC

VARIABLES
    store,        \* base_dir: the attempt file of every (company, year, attempt)
    cwdIsBase,    \* whether the working directory of the run is base_dir
    listing,      \* order in which os.listdir reports the companies
    pc,           \* position of main: "start", "loop", "done", "crashed", "nofiles"
    queue,        \* (company, year) units main has still to process
    called,       \* units process_year_reports has been called for
    summaries,    \* output_dir: the summary file of every unit, if written
    skipped,      \* units logged as "No reports found ... Skipping."
    primaryOf,    \* per unit: the attempt number of the primary report chosen, 0 when none
    consulted,    \* per unit: the (field path, year) pairs load_year_reports was asked for
    filenames,    \* the list of PDF filenames in filenames_to_loop_through.xlsx
    table,        \* the assembled table (a sequence of rows), once written
    asmPc,        \* position of the assembler script: "idle", "written", "crashed"
    fieldCall,    \* arguments of a direct call of process_numeric_field
    fieldResult,  \* its outcome
    series,       \* argument of a direct call of a function of 10-smooth-series.py
    seriesOut,    \* its outcome
    smoothedTable, \* the table written by 10-smooth-series.py, once written
    smoothPc,     \* position of 10-smooth-series.py: "idle", "written", "crashed"
    run,          \* 1 during the first run of the pipeline, 2 during a second one
    firstRun,     \* what the first run read and left behind, once a second run started
    pending,      \* PDFs the running extraction script has still to handle
    exRun,        \* number of runs of the extraction script started so far
    extractLog    \* per PDF: what the current extraction run logged for it

\* the variables of the series stage and of the second run
stageVars == <<series, seriesOut, smoothedTable, smoothPc>>

rerunVars == <<run, firstRun>>

\* the variables of the extraction stage
extractVars == <<pending, exRun, extractLog>>

vars == <<store, cwdIsBase, listing, pc, queue, called, summaries, skipped,
          primaryOf, consulted, filenames, table, asmPc, fieldCall, fieldResult,
          stageVars, rerunVars, extractVars>>

----------------------------------------------------------------------------
(* Optional values and Python dict access *)

None == <<>>

Some(x) == <<x>>

IsNone(o) == Len(o) = 0

EmptyDict == [k \in {} |-> None]

\* dict.get(key): the value under key, None when the key is missing
Get(d, k) == IF k \in DOMAIN d THEN d[k] ELSE None

\* dict.get(key, default)
GetDefault(d, k, default) == IF k \in DOMAIN d THEN d[k] ELSE default

----------------------------------------------------------------------------
(* Exact arithmetic of statistics.mean, min, max *)

Abs(x) == IF x < 0 THEN -x ELSE x

RECURSIVE GCD(_, _)
GCD(a, b) == IF b = 0 THEN a ELSE GCD(b, a % b)

\* the rational num/den (den > 0) in lowest terms
Rat(num, den) ==
    LET g == GCD(Abs(num), den)
    IN  [num |-> num \div g, den |-> den \div g]

RatLess(a, b) == a.num * b.den < b.num * a.den

RECURSIVE SumSeq(_)
SumSeq(s) == IF s = <<>> THEN 0 ELSE Head(s) + SumSeq(Tail(s))

RECURSIVE MinSeq(_)
MinSeq(s) ==
    IF Len(s) = 1 THEN s[1]
    ELSE LET m == MinSeq(Tail(s)) IN IF s[1] < m THEN s[1] ELSE m

RECURSIVE MaxSeq(_)
MaxSeq(s) ==
    IF Len(s) = 1 THEN s[1]
    ELSE LET m == MaxSeq(Tail(s)) IN IF s[1] > m THEN s[1] ELSE m

\* statistics.mean of a non-empty list of integers
Mean(s) == Rat(SumSeq(s), Len(s))

\* the 20% threshold of the discrepancy and deviation tests (literal 0.2)
Threshold == [num |-> 1, den |-> 5]

----------------------------------------------------------------------------
(* The data store and load_json *)

Attempts == <<1, 2, 3>>

AbsentFile == [kind |-> "absent", doc |-> EmptyDict]

MalformedFile == [kind |-> "malformed", doc |-> EmptyDict]

JsonFile(d) == [kind |-> "json", doc |-> d]

\* an attempt document as the extraction stage dumps it
Doc(company, year, income, balance, employees, board, auditors, notes) ==
    [company_name |-> Some(company), fiscal_year |-> Some(year),
     income_statement |-> income, balance_sheet |-> balance, employees |-> employees,
     board |-> board, auditors |-> auditors, additional_notes |-> notes]

\* two readings of the same report that disagree on most fields
Reading1(company, year) ==
    Doc(company, year,
        Some([revenue |-> Some(100), net_income |-> None]),
        Some([total_assets |-> Some(100)]),
        Some([n_employees |-> Some(5)]),
        Some(<<"Berg">>), Some(<<"Ek">>), Some("note"))

Reading2(company, year) ==
    Doc(company, year,
        Some([revenue |-> Some(1000), other_income |-> Some(5)]),
        Some([total_assets |-> Some(0)]),
        None,
        Some(<<"Berg", "Dahl">>), None, None)

\* a reading that holds nothing but one value (or null) of income_statement.revenue
FieldDoc(company, year, value) ==
    Doc(company, year, Some([revenue |-> value]), Some(EmptyDict), None, None, None, None)

\* the content of a slot of the data store, named by a tag and a number:
\* no file, an unparseable file, the document {}, one of the two readings,
\* or a reading that holds one revenue value
Absent == <<"absent", 0>>

FileOf(slot, kind) ==
    IF kind[1] = "absent" THEN AbsentFile
    ELSE IF kind[1] = "malformed" THEN MalformedFile
    ELSE IF kind[1] = "empty" THEN JsonFile(EmptyDict)
    ELSE IF kind[1] = "reading"
    THEN JsonFile(IF kind[2] = 1 THEN Reading1(slot[1], slot[2])
                  ELSE Reading2(slot[1], slot[2]))
    ELSE IF kind[1] = "fieldnull" THEN JsonFile(FieldDoc(slot[1], slot[2], None))
    ELSE JsonFile(FieldDoc(slot[1], slot[2], Some(kind[2])))

\* the file base_dir/{company}-{year}_{i}.json
FileAt(company, year, i) ==
    IF <<company, year, i>> \in DOMAIN store
    THEN FileOf(<<company, year, i>>, store[<<company, year, i>>])
    ELSE AbsentFile

\* the file {company}-{year}_{i}.json resolved against the working directory
CwdFileAt(company, year, i) ==
    IF cwdIsBase THEN FileAt(company, year, i) ELSE AbsentFile

\* os.path.exists
Exists(file) == file.kind # "absent"

\* load_json: the parsed document, None when open or json.load raises
load_json(file) == IF file.kind = "json" THEN Some(file.doc) ELSE None

\* truth value of a loaded document ("if rep:"): None and {} are false
Truthy(rep) == ~IsNone(rep) /\ DOMAIN rep[1] # {}

\* the loop "for i in [1, 2, 3]: if exists: rep = load_json; if rep: append":
\* the positions in Attempts whose file is appended
RECURSIVE LoadedAttempts(_, _)
LoadedAttempts(files, k) ==
    IF k > Len(files) THEN <<>>
    ELSE (IF Exists(files[k]) /\ Truthy(load_json(files[k])) THEN <<k>> ELSE <<>>)
         \o LoadedAttempts(files, k + 1)

\* the list of appended documents
ReportsOf(files, loaded) == [j \in 1..Len(loaded) |-> load_json(files[loaded[j]])[1]]

\* the list the loading loop builds from the three files
LoadReports(files) == ReportsOf(files, LoadedAttempts(files, 1))

\* a reconciled group of a summary, read back as the group of a report
SummaryAsGroup(group) ==
    Some([key \in DOMAIN group |->
            IF IsNone(group[key]) THEN None
            ELSE Some(group[key][1].num \div group[key][1].den)])

\* mutant: the adjacent years are read from the summaries written so far
load_year_reports_Summaries(company, target_year) ==
    IF <<company, target_year>> \in DOMAIN summaries
          /\ ~IsNone(summaries[<<company, target_year>>])
    THEN LET summary == summaries[<<company, target_year>>][1]
         IN  <<Doc(company, target_year,
                   SummaryAsGroup(summary.income_statement),
                   SummaryAsGroup(summary.balance_sheet),
                   SummaryAsGroup(summary.employees),
                   summary.board, summary.auditors, summary.additional_notes)>>
    ELSE <<>>

\* load_year_reports, the closure of smooth_numeric_field
load_year_reports(company, target_year) ==
    LoadReports([k \in 1..Len(Attempts) |-> CwdFileAt(company, target_year, Attempts[k])])

----------------------------------------------------------------------------
(* Field reconciler *)

\* val = report; for key in field_path: if val is None: break; val = val.get(key)
RECURSIVE Walk(_, _, _)
Walk(val, field_path, k) ==
    IF k > Len(field_path) \/ IsNone(val) THEN val
    ELSE Walk(Get(val[1], field_path[k]), field_path, k + 1)

\* the non-null values of the field in a list of reports, in report order
RECURSIVE FieldValues(_, _, _)
FieldValues(reports, field_path, k) ==
    IF k > Len(reports) THEN <<>>
    ELSE LET val == Walk(Some(reports[k]), field_path, 1)
         IN  (IF IsNone(val) THEN <<>> ELSE <<val[1]>>)
             \o FieldValues(reports, field_path, k + 1)

\* abs(v - adjacent_avg) / abs(adjacent_avg) < 0.2, for adjacent_avg # 0
WithinThreshold(v, adjacent_avg) ==
    RatLess(Rat(Abs(v * adjacent_avg.den - adjacent_avg.num), Abs(adjacent_avg.num)),
            Threshold)

RECURSIVE ValidCurrent(_, _, _)
ValidCurrent(current_values, adjacent_avg, k) ==
    IF k > Len(current_values) THEN <<>>
    ELSE (IF WithinThreshold(current_values[k], adjacent_avg)
          THEN <<current_values[k]>> ELSE <<>>)
         \o ValidCurrent(current_values, adjacent_avg, k + 1)

\* mutant: the window is widened towards the later years whenever they hold
\* reports, whatever the earlier year holds
PoolAdjacent_WidenForward(company, year, prev_reports, next_reports) ==
    IF next_reports # <<>>
    THEN [reports |-> load_year_reports(company, year + 1)
                      \o load_year_reports(company, year + 2),
          years |-> {year - 1, year + 1, year + 2}]
    ELSE [reports |-> prev_reports \o next_reports, years |-> {year - 1, year + 1}]

\* mutant: the window is never widened
PoolAdjacent_NoWidening(company, year, prev_reports, next_reports) ==
    [reports |-> prev_reports \o next_reports, years |-> {year - 1, year + 1}]

\* "if one side is missing, try two years from the available side": the adjacent
\* reports pooled from prev_reports and next_reports, with the years asked for
PoolAdjacent(company, year, prev_reports, next_reports) ==
    IF prev_reports = <<>> /\ next_reports # <<>>
    THEN [reports |-> load_year_reports(company, year + 1)
                      \o load_year_reports(company, year + 2),
          years |-> {year - 1, year + 1, year + 2}]
    ELSE IF next_reports = <<>> /\ prev_reports # <<>>
    THEN [reports |-> load_year_reports(company, year - 1)
                      \o load_year_reports(company, year - 2),
          years |-> {year - 1, year + 1, year - 2}]
    ELSE [reports |-> prev_reports \o next_reports, years |-> {year - 1, year + 1}]

\* the adjacent reports smooth_numeric_field pools
AdjacentReports(company, year) ==
    PoolAdjacent(company, year,
                 load_year_reports(company, year - 1),
                 load_year_reports(company, year + 1))

\* "if valid_current: return statistics.mean(valid_current) else: return None"
MeanOfValid(valid_current) ==
    [raised |-> FALSE,
     value |-> IF valid_current # <<>> THEN Some(Mean(valid_current)) ELSE None]

\* mutant: the mean of the adjacent values is returned in place of the mean of
\* the current values close to it
SmoothAround_AdjacentMean(adjacent_avg, current_values) ==
    IF adjacent_avg.num = 0
    THEN [raised |-> TRUE, value |-> None]
    ELSE [raised |-> FALSE,
          value |-> IF ValidCurrent(current_values, adjacent_avg, 1) # <<>>
                    THEN Some(adjacent_avg) ELSE None]

\* the selection against adjacent_avg; raised is TRUE when line 115 divides by zero
SmoothAround(adjacent_avg, current_values) ==
    IF adjacent_avg.num = 0
    THEN [raised |-> TRUE, value |-> None]
    ELSE MeanOfValid(ValidCurrent(current_values, adjacent_avg, 1))

\* smooth_numeric_field from the adjacent values on: None when there are none
SmoothFrom(adjacent_values, current_values) ==
    IF adjacent_values = <<>>
    THEN [raised |-> FALSE, value |-> None]
    ELSE SmoothAround(Mean(adjacent_values), current_values)

\* an outcome, together with the years load_year_reports was asked for
WithYears(outcome, years) ==
    [raised |-> outcome.raised, value |-> outcome.value, years |-> years]

\* smooth_numeric_field once the adjacent reports are pooled
SmoothOver(adj, field_path, current_values) ==
    WithYears(SmoothFrom(FieldValues(adj.reports, field_path, 1), current_values),
              adj.years)

\* smooth_numeric_field
smooth_numeric_field(field_path, company, year, current_values) ==
    SmoothOver(AdjacentReports(company, year), field_path, current_values)

\* mutant: the discrepancy test with the comparison turned round
LowDiscrepancy_Inverted(values) ==
    LET avg_val == Mean(values)
    IN  IF avg_val.num = 0 THEN FALSE
        ELSE ~RatLess(Rat((MaxSeq(values) - MinSeq(values)) * avg_val.den,
                          Abs(avg_val.num)),
                      Threshold)

\* mutant: a mean of 0 counts as a high discrepancy
LowDiscrepancy_ZeroMeanHigh(values) ==
    LET avg_val == Mean(values)
    IN  IF avg_val.num = 0 THEN FALSE
        ELSE RatLess(Rat((MaxSeq(values) - MinSeq(values)) * avg_val.den,
                         Abs(avg_val.num)),
                     Threshold)

\* (max - min) / abs(avg) < 0.2, with the discrepancy taken as 0 when avg == 0
LowDiscrepancy(values) ==
    LET avg_val == Mean(values)
    IN  IF avg_val.num = 0 THEN RatLess(Rat(0, 1), Threshold)
        ELSE RatLess(Rat((MaxSeq(values) - MinSeq(values)) * avg_val.den,
                         Abs(avg_val.num)),
                     Threshold)

\* mutant: the result of the smoothing returned as it is, without the fallback
SmoothedOrAverage_NoFallback(smoothed, avg_val) == smoothed

\* "if smoothed is not None: return smoothed else: return avg_val"; an exception
\* of smooth_numeric_field propagates
SmoothedOrAverage(smoothed, avg_val) ==
    IF smoothed.raised \/ ~IsNone(smoothed.value) THEN smoothed
    ELSE [raised |-> FALSE, value |-> Some(avg_val), years |-> smoothed.years]

\* process_numeric_field from the collected values on
ReconcileValues(values, field_path, company, year) ==
    IF values = <<>>
    THEN [raised |-> FALSE, value |-> None, years |-> {}]
    ELSE IF LowDiscrepancy(values)
    THEN [raised |-> FALSE, value |-> Some(Mean(values)), years |-> {}]
    ELSE SmoothedOrAverage(smooth_numeric_field(field_path, company, year, values),
                           Mean(values))

\* mutant: only the first report contributes its value
process_numeric_field_FirstOnly(field_path, reports, company, year) ==
    ReconcileValues(FieldValues(SubSeq(reports, 1, 1), field_path, 1),
                    field_path, company, year)

\* process_numeric_field on an explicit list of reports
process_numeric_field(field_path, reports, company, year) ==
    ReconcileValues(FieldValues(reports, field_path, 1), field_path, company, year)

----------------------------------------------------------------------------
(* Year summarizer *)

Groups == <<"income_statement", "balance_sheet", "employees">>

\* the field names of each group, in the order the extraction schema dumps them
KeyOrder ==
    [income_statement |-> <<"revenue", "net_income", "other_income">>,
     balance_sheet |-> <<"total_assets">>,
     employees |-> <<"n_employees">>]

\* the files base_dir/{company}-{year}_{i}.json, i in [1, 2, 3]
BaseFiles(company, year) ==
    [k \in 1..Len(Attempts) |-> FileAt(company, year, Attempts[k])]

\* primary_report.get(group) or {}
GroupData(primary_report, group) ==
    LET g == Get(primary_report, group)
    IN  IF IsNone(g) THEN EmptyDict ELSE g[1]

\* the keys of a dict, listed in schema order
RECURSIVE KeysInOrder(_, _, _)
KeysInOrder(data, order, k) ==
    IF k > Len(order) THEN <<>>
    ELSE (IF order[k] \in DOMAIN data THEN <<order[k]>> ELSE <<>>)
         \o KeysInOrder(data, order, k + 1)

RECURSIVE PathsOf(_, _, _)
PathsOf(group, keys, k) ==
    IF k > Len(keys) THEN <<>>
    ELSE <<(<<group, keys[k]>>)>> \o PathsOf(group, keys, k + 1)

\* the field paths process_year_reports reconciles, in the order it does
RECURSIVE FieldPaths(_, _)
FieldPaths(primary_report, g) ==
    IF g > Len(Groups) THEN <<>>
    ELSE PathsOf(Groups[g],
                 KeysInOrder(GroupData(primary_report, Groups[g]), KeyOrder[Groups[g]], 1),
                 1)
         \o FieldPaths(primary_report, g + 1)

\* the outcome of reconciling every field path of the primary report
Reconciled(paths, reports, company, year) ==
    [k \in 1..Len(paths) |-> process_numeric_field(paths[k], reports, company, year)]

\* index of the first field whose reconciliation raises, 0 when none does
FirstRaise(results) ==
    IF \E k \in DOMAIN results : results[k].raised
    THEN CHOOSE k \in DOMAIN results :
            results[k].raised /\ \A j \in 1..(k - 1) : ~results[j].raised
    ELSE 0

IndexOf(paths, path) == CHOOSE k \in 1..Len(paths) : paths[k] = path

\* mutant: a field whose reconciled value is null is left out of the summary
SummaryGroup_DropNull(primary_report, group, paths, results) ==
    [key \in {k \in DOMAIN GroupData(primary_report, group) :
                ~IsNone(results[IndexOf(paths, <<group, k>>)].value)} |->
        results[IndexOf(paths, <<group, key>>)].value]

\* the reconciled group of the summary: one entry per key of the primary's group
SummaryGroup(primary_report, group, paths, results) ==
    [key \in DOMAIN GroupData(primary_report, group) |->
        results[IndexOf(paths, <<group, key>>)].value]

\* the (field path, year) pairs asked of load_year_reports by the first n fields
ConsultedBy(paths, n, results) ==
    UNION { { <<paths[k], y>> : y \in results[k].years } : k \in 1..n }

\* mutant: the auditors entry filled from the board key
Summary_AuditorsFromBoard(primary_report, paths, results) ==
    [company_name |-> Get(primary_report, "company_name"),
     fiscal_year |-> Get(primary_report, "fiscal_year"),
     additional_notes |-> Get(primary_report, "additional_notes"),
     income_statement |-> SummaryGroup(primary_report, "income_statement", paths, results),
     balance_sheet |-> SummaryGroup(primary_report, "balance_sheet", paths, results),
     employees |-> SummaryGroup(primary_report, "employees", paths, results),
     board |-> GetDefault(primary_report, "board", Some(<<>>)),
     auditors |-> GetDefault(primary_report, "board", Some(<<>>))]

\* the summary dictionary built from the primary report and the reconciled fields
Summary(primary_report, paths, results) ==
    [company_name |-> Get(primary_report, "company_name"),
     fiscal_year |-> Get(primary_report, "fiscal_year"),
     additional_notes |-> Get(primary_report, "additional_notes"),
     income_statement |-> SummaryGroup(primary_report, "income_statement", paths, results),
     balance_sheet |-> SummaryGroup(primary_report, "balance_sheet", paths, results),
     employees |-> SummaryGroup(primary_report, "employees", paths, results),
     board |-> GetDefault(primary_report, "board", Some(<<>>)),
     auditors |-> GetDefault(primary_report, "auditors", Some(<<>>))]

\* mutant: the last loaded report taken as primary
PrimaryPosition_Last(reports) == Len(reports)

\* the position in reports of the primary report: reports[0]
PrimaryPosition(reports) == 1

\* process_year_reports: what one call does to the output directory and the log;
\* primary is the attempt number of the primary report, 0 when there is none
process_year_reports(company, year) ==
    LET files == BaseFiles(company, year)
        loaded == LoadedAttempts(files, 1)
        reports == ReportsOf(files, loaded)
    IN  IF reports = <<>>
        THEN [kind |-> "skipped", summary |-> None, years |-> {}, primary |-> 0]
        ELSE
        LET primary_report == reports[PrimaryPosition(reports)]
            primary == Attempts[loaded[PrimaryPosition(reports)]]
            paths == FieldPaths(primary_report, 1)
            results == Reconciled(paths, reports, company, year)
            bad == FirstRaise(results)
        IN  IF bad # 0
            THEN [kind |-> "raised", summary |-> None,
                  years |-> ConsultedBy(paths, bad, results), primary |-> primary]
            ELSE [kind |-> "saved",
                  summary |-> Some(Summary(primary_report, paths, results)),
                  years |-> ConsultedBy(paths, Len(paths), results),
                  primary |-> primary]

----------------------------------------------------------------------------
(* Batch driver: main of 08-smooth-numerics.py *)

\* company names in ascending string order
CompanyOrder == <<"A", "B">>

Companies == {CompanyOrder[k] : k \in 1..Len(CompanyOrder)}

Rank(company) == CHOOSE k \in 1..Len(CompanyOrder) : CompanyOrder[k] = company

\* the years of the attempt files of a company that os.listdir(base_dir) shows
YearsOf(company) ==
    {s[2] : s \in {t \in DOMAIN store : t[1] = company /\ store[t] # Absent}}

\* sorted(years), paired with the company
RECURSIVE SortedUnits(_, _)
SortedUnits(company, years) ==
    IF years = {} THEN <<>>
    ELSE LET y == CHOOSE m \in years : \A n \in years : m <= n
         IN  <<(<<company, y>>)>> \o SortedUnits(company, years \ {y})

\* company_years.items() followed in insertion order, the years of each sorted
RECURSIVE CompanyYears(_, _)
CompanyYears(order, k) ==
    IF k > Len(order) THEN <<>>
    ELSE SortedUnits(order[k], YearsOf(order[k])) \o CompanyYears(order, k + 1)

\* the (company, year) units whose name some attempt file of base_dir carries
Discovered == {<<t[1], t[2]>> : t \in {u \in DOMAIN store : store[u] # Absent}}

\* main up to the loop: list base_dir, collect company_years
MainStart ==
    /\ pc = "start"
    /\ queue' = CompanyYears(listing, 1)
    /\ pc' = IF queue' = <<>> THEN "nofiles" ELSE "loop"
    /\ UNCHANGED <<store, cwdIsBase, listing, called, summaries, skipped, primaryOf, consulted,
                   filenames, table, asmPc, fieldCall, fieldResult, stageVars, rerunVars, extractVars>>

\* one iteration of the loop of main: process_year_reports(company, year)
MainStep ==
    /\ pc = "loop"
    /\ queue # <<>>
    /\ \E out \in {process_year_reports(Head(queue)[1], Head(queue)[2])} :
       LET unit == Head(queue)
       IN  /\ called' = called \cup {unit}
           /\ consulted' = [consulted EXCEPT ![unit] = out.years]
           /\ primaryOf' = [primaryOf EXCEPT ![unit] = out.primary]
           /\ skipped' = IF out.kind = "skipped" THEN skipped \cup {unit} ELSE skipped
           /\ summaries' = IF out.kind = "saved"
                           THEN [summaries EXCEPT ![unit] = out.summary]
                           ELSE summaries
           /\ pc' = IF out.kind = "raised" THEN "crashed"
                    ELSE IF Tail(queue) = <<>> THEN "done" ELSE "loop"
           /\ queue' = IF out.kind = "raised" THEN queue ELSE Tail(queue)
    /\ UNCHANGED <<store, cwdIsBase, listing, filenames, table, asmPc,
                   fieldCall, fieldResult, stageVars, rerunVars, extractVars>>

----------------------------------------------------------------------------
(* Cross-sectional assembler: 09-get-pandas-df.py *)

\* the columns the script extracts from a summary, by group
Columns ==
    <<(<<"income_statement", "revenue">>), (<<"income_statement", "net_income">>),
      (<<"balance_sheet", "total_assets">>), (<<"employees", "n_employees">>)>>

ColumnNames == {Columns[k][2] : k \in 1..Len(Columns)}

ColumnGroup(name) == (CHOOSE k \in 1..Len(Columns) : Columns[k][2] = name)

\* the record built from one summary file
Record(company, year, data) ==
    [col \in {"company_name", "fiscal_year"} \cup ColumnNames |->
        IF col = "company_name" THEN Some(company)
        ELSE IF col = "fiscal_year" THEN Some(year)
        ELSE Get(data[Columns[ColumnGroup(col)][1]], col)]

\* mutant: a filename whose summary file is missing still yields a null-filled record
RECURSIVE DataList_NullRows(_, _)
DataList_NullRows(names, k) ==
    IF k > Len(names) THEN <<>>
    ELSE LET unit == <<names[k].company, names[k].year>>
         IN  (IF unit \in DOMAIN summaries /\ ~IsNone(summaries[unit])
              THEN <<Record(unit[1], unit[2], summaries[unit][1])>>
              ELSE <<Record(unit[1], unit[2],
                            [g \in {Groups[j] : j \in 1..Len(Groups)} |-> EmptyDict])>>)
             \o DataList_NullRows(names, k + 1)

\* the loop over the filenames: one record per filename whose summary file exists
RECURSIVE DataList(_, _)
DataList(names, k) ==
    IF k > Len(names) THEN <<>>
    ELSE LET unit == <<names[k].company, names[k].year>>
         IN  (IF unit \in DOMAIN summaries /\ ~IsNone(summaries[unit])
              THEN <<Record(unit[1], unit[2], summaries[unit][1])>>
              ELSE <<>>)
             \o DataList(names, k + 1)

RowLeq(a, b) ==
    \/ Rank(a.company_name[1]) < Rank(b.company_name[1])
    \/ /\ a.company_name[1] = b.company_name[1]
       /\ a.fiscal_year[1] <= b.fiscal_year[1]

RECURSIVE InsertRow(_, _)
InsertRow(row, rows) ==
    IF rows = <<>> THEN <<row>>
    ELSE IF RowLeq(row, Head(rows)) THEN <<row>> \o rows
    ELSE <<Head(rows)>> \o InsertRow(row, Tail(rows))

\* df.sort_values(['company_name', 'fiscal_year'])
RECURSIVE SortValues(_)
SortValues(rows) ==
    IF rows = <<>> THEN <<>>
    ELSE InsertRow(Head(rows), SortValues(Tail(rows)))

\* the whole script; sort_values raises KeyError on a frame built from no records
Assemble ==
    /\ pc \in {"done", "crashed", "nofiles"}
    /\ asmPc = "idle"
    /\ LET data_list == DataList(filenames, 1)
       IN  IF data_list = <<>>
           THEN asmPc' = "crashed" /\ table' = table
           ELSE asmPc' = "written" /\ table' = Some(SortValues(data_list))
    /\ UNCHANGED <<store, cwdIsBase, listing, pc, queue, called, summaries, skipped,
                   primaryOf, consulted, filenames, fieldCall, fieldResult, stageVars, rerunVars, extractVars>>

----------------------------------------------------------------------------
(* Series stage: 10-smooth-series.py                                        *)
(*                                                                          *)
(* A cell of a numeric column is NaN (None) or a number c * 10^log with c   *)
(* and log exact rationals.  A power of ten has c = 1, any other number of  *)
(* the table log = 0.                                                       *)
(* adjust_scale multiplies by 10^d, d a difference of cluster centres, by   *)
(* adding d to log.  np.log10 is taken of powers of ten only (c = 1), the   *)
(* arithmetic of winsorize of numbers with a natural log only: the series   *)
(* the model hands to these functions are chosen accordingly.               *)

Zero == [num |-> 0, den |-> 1]

One == [num |-> 1, den |-> 1]

RatAdd(a, b) == Rat(a.num * b.den + b.num * a.den, a.den * b.den)

RatSub(a, b) == Rat(a.num * b.den - b.num * a.den, a.den * b.den)

RatMul(a, b) == Rat(a.num * b.num, a.den * b.den)

RatAbs(a) == [num |-> Abs(a.num), den |-> a.den]

RatLeq(a, b) == a.num * b.den <= b.num * a.den

RECURSIVE RatSum(_)
RatSum(s) == IF s = <<>> THEN Zero ELSE RatAdd(Head(s), RatSum(Tail(s)))

\* the mean of a non-empty sequence of rationals
RatMean(s) == RatMul(RatSum(s), [num |-> 1, den |-> Len(s)])

RECURSIVE RatInsert(_, _)
RatInsert(x, s) ==
    IF s = <<>> THEN <<x>>
    ELSE IF RatLeq(x, Head(s)) THEN <<x>> \o s
    ELSE <<Head(s)>> \o RatInsert(x, Tail(s))

RECURSIVE RatSort(_)
RatSort(s) == IF s = <<>> THEN <<>> ELSE RatInsert(Head(s), RatSort(Tail(s)))

NaN == None

Val(c, log) == Some([c |-> c, log |-> log])

RECURSIVE IsPow10(_)
IsPow10(n) == n >= 1 /\ (n = 1 \/ (n % 10 = 0 /\ IsPow10(n \div 10)))

RECURSIVE IntLog10(_)
IntLog10(n) == IF n = 1 THEN 0 ELSE 1 + IntLog10(n \div 10)

\* a number as the table holds it: a power of ten 10^n as c = 1, log = n,
\* any other number with log = 0
Plain(c) ==
    IF c.den = 1 /\ IsPow10(c.num) THEN Val(One, [num |-> IntLog10(c.num), den |-> 1])
    ELSE Val(c, Zero)

\* series > 0 is False for NaN
IsPositive(e) == ~IsNone(e) /\ e[1].c.num > 0

\* the index of valid = series[series > 0].dropna(), in order
RECURSIVE ValidIndex(_, _)
ValidIndex(s, k) ==
    IF k > Len(s) THEN <<>>
    ELSE (IF IsPositive(s[k]) THEN <<k>> ELSE <<>>) \o ValidIndex(s, k + 1)

\* np.log10 of a positive cell
Log10(e) == CASE e[1].c = One -> e[1].log

\* log_vals = np.log10(valid.values)
LogVals(s, index) == [k \in 1..Len(index) |-> Log10(s[index[k]])]

----------------------------------------------------------------------------
(* KMeans(n_clusters=2, random_state=0).fit on one-dimensional data.  The   *)
(* fit ends in a fixed point of Lloyd's iteration: each centre is the mean  *)
(* of its cluster and each point is at least as close to its own centre as  *)
(* to the other one.  Which fixed point the seeded initialisation leads to  *)
(* is not modelled: every fixed point, under either numbering of the two    *)
(* clusters, is a possible outcome.  When all points coincide both centres  *)
(* sit on the point and every label is 0.                                   *)

ValueSet(log_vals) == {log_vals[k] : k \in 1..Len(log_vals)}

\* the points of log_vals that are at most (low = TRUE) or above (low = FALSE) cut
RECURSIVE Side(_, _, _)
Side(log_vals, cut, low) ==
    IF log_vals = <<>> THEN <<>>
    ELSE (IF RatLeq(Head(log_vals), cut) = low THEN <<Head(log_vals)>> ELSE <<>>)
         \o Side(Tail(log_vals), cut, low)

\* the two cluster means on either side of cut leave every point with its own centre
StableCut(log_vals, cut, c_low, c_high) ==
    \A x \in ValueSet(log_vals) :
        IF RatLeq(x, cut)
        THEN RatLeq(RatAdd(x, x), RatAdd(c_low, c_high))
        ELSE RatLeq(RatAdd(c_low, c_high), RatAdd(x, x))

\* the fitted model: cluster_centers_ (numbered 0 and 1) and labels_
Fit(log_vals, cut, c_low, c_high, low_label) ==
    [centers |-> IF low_label = 0 THEN <<c_low, c_high>> ELSE <<c_high, c_low>>,
     labels |-> [k \in 1..Len(log_vals) |->
                    IF RatLeq(log_vals[k], cut) THEN low_label ELSE 1 - low_label]]

FitsAt(log_vals, cut, c_low, c_high) ==
    IF StableCut(log_vals, cut, c_low, c_high)
    THEN {Fit(log_vals, cut, c_low, c_high, low_label) : low_label \in {0, 1}}
    ELSE {}

KMeans(log_vals) ==
    IF Cardinality(ValueSet(log_vals)) = 1
    THEN {[centers |-> <<log_vals[1], log_vals[1]>>,
           labels |-> [k \in 1..Len(log_vals) |-> 0]]}
    ELSE UNION {FitsAt(log_vals, cut, RatMean(Side(log_vals, cut, TRUE)),
                       RatMean(Side(log_vals, cut, FALSE))) :
                   cut \in {x \in ValueSet(log_vals) :
                               \E y \in ValueSet(log_vals) : RatLess(x, y)}}

\* a series with fewer than MinValid positive cells is never clustered
MinValid == 10

\* the clusters must be at least this many orders of magnitude apart (literal 2.5)
MinCenterDiff == [num |-> 5, den |-> 2]

\* the fits adjust_scale can obtain for a series; none is made for a short one
KMeansOf(s) ==
    IF Len(ValidIndex(s, 1)) < MinValid THEN {[centers |-> <<Zero, Zero>>, labels |-> <<>>]}
    ELSE KMeans(LogVals(s, ValidIndex(s, 1)))

\* mutant: the cluster of the larger centre is taken
ArgMin_Larger(centers) == IF RatLeq(centers[1], centers[2]) THEN 1 ELSE 0

\* np.argmin(centers): the first index (0 or 1) of the smaller centre
ArgMin(centers) == IF RatLeq(centers[1], centers[2]) THEN 0 ELSE 1

\* factor = 10 ** abs(centers.max() - centers.min()), as the exponent it adds
FactorLog(centers) == RatAbs(RatSub(centers[1], centers[2]))

\* lower_indices = valid.index[labels == lower_cluster]
LowerIndices(index, labels, lower_cluster) ==
    {index[k] : k \in {j \in 1..Len(index) : labels[j] = lower_cluster}}

\* series_adjusted.loc[lower_indices] = series.loc[lower_indices] * factor
Rescale(s, lower_indices, d) ==
    [k \in 1..Len(s) |->
        IF k \in lower_indices THEN Val(s[k][1].c, RatAdd(s[k][1].log, d)) ELSE s[k]]

\* mutant: the distance of the cluster centres is not tested
adjust_scale_AlwaysRescale(s, kmeans) ==
    IF Len(ValidIndex(s, 1)) < MinValid THEN s
    ELSE Rescale(s, LowerIndices(ValidIndex(s, 1), kmeans.labels, ArgMin(kmeans.centers)),
                 FactorLog(kmeans.centers))

\* adjust_scale(series), kmeans being the fit it obtains
adjust_scale(s, kmeans) ==
    IF Len(ValidIndex(s, 1)) < MinValid THEN s
    ELSE IF RatLess(FactorLog(kmeans.centers), MinCenterDiff) THEN s
    ELSE Rescale(s, LowerIndices(ValidIndex(s, 1), kmeans.labels, ArgMin(kmeans.centers)),
                 FactorLog(kmeans.centers))

----------------------------------------------------------------------------
(* winsorize *)

RECURSIVE Pow10(_)
Pow10(n) == IF n = 0 THEN 1 ELSE 10 * Pow10(n - 1)

\* the number a cell holds, for a natural log
Lin(e) ==
    CASE e[1].log.den = 1 /\ e[1].log.num >= 0 ->
        RatMul(e[1].c, [num |-> Pow10(e[1].log.num), den |-> 1])

\* the non-null numbers of a series, in order
RECURSIVE NonNull(_)
NonNull(s) ==
    IF s = <<>> THEN <<>>
    ELSE (IF IsNone(Head(s)) THEN <<>> ELSE <<Lin(Head(s))>>) \o NonNull(Tail(s))

\* the median of a non-empty sorted sequence
MiddleOf(sorted) ==
    IF Len(sorted) % 2 = 1 THEN sorted[(Len(sorted) + 1) \div 2]
    ELSE RatMul(RatAdd(sorted[Len(sorted) \div 2], sorted[Len(sorted) \div 2 + 1]),
                [num |-> 1, den |-> 2])

Median(vals) == MiddleOf(RatSort(vals))

\* np.abs(series - med)
AbsDev(vals, med) == [k \in 1..Len(vals) |-> RatAbs(RatSub(vals[k], med))]

\* the squares of the numbers of a series
Squares(vals) == [k \in 1..Len(vals) |-> RatMul(vals[k], vals[k])]

\* the square of series.std(): the sample variance (ddof = 1) of two or more
\* numbers, sum((x - mean)^2) / (n - 1), computed as
\* (n * sum(x^2) - sum(x)^2) / (n * (n - 1))
VarianceFrom(n, sum, sum_sq) ==
    RatMul(RatSub(RatMul([num |-> n, den |-> 1], sum_sq), RatMul(sum, sum)),
           [num |-> 1, den |-> n * (n - 1)])

Variance(vals) == VarianceFrom(Len(vals), RatSum(vals), RatSum(Squares(vals)))

\* the spread no bound can be computed from: mad is NaN
NoSpread == [kind |-> "nan", mad |-> Zero, sq |-> Zero]

\* mad as the bounds use it: the MAD itself, or series.std() when the MAD is 0;
\* the standard deviation is kept as its square
SpreadFrom(vals, mad) ==
    IF mad # Zero THEN [kind |-> "mad", mad |-> mad, sq |-> RatMul(mad, mad)]
    ELSE IF Len(vals) < 2 THEN NoSpread
    ELSE [kind |-> "std", mad |-> Zero, sq |-> Variance(vals)]

\* np.median of an array that holds a NaN, or of an empty one, is NaN;
\* NaN == 0 is False, so the fallback to std is not taken then
Spread(s, vals, med) ==
    IF vals = <<>> \/ Len(vals) # Len(s) THEN NoSpread
    ELSE SpreadFrom(vals, Median(AbsDev(vals, med)))

\* the multiple of mad that bounds the series (threshold=3.0)
WinsorThreshold == 3

\* med + side * threshold * mad: a number when mad is the MAD, and the symbolic
\* value med + side * threshold * sqrt(var) when it is the standard deviation
Bound(med, side, spread) ==
    IF spread.kind = "mad"
    THEN Plain(RatAdd(med, RatMul([num |-> side * WinsorThreshold, den |-> 1], spread.mad)))
    ELSE Some([c |-> med, log |-> Zero, side |-> side, var |-> spread.sq])

\* |dev| > threshold * mad, compared through the squares
Beyond(dev, spread) ==
    RatLess(RatMul([num |-> WinsorThreshold * WinsorThreshold, den |-> 1], spread.sq),
            RatMul(dev, dev))

ClipAt(e, dev, med, spread) ==
    IF dev.num < 0 /\ Beyond(dev, spread) THEN Bound(med, -1, spread)
    ELSE IF dev.num > 0 /\ Beyond(dev, spread) THEN Bound(med, 1, spread)
    ELSE e

\* series.clip(lower, upper) of one cell; NaN bounds clip nothing
Clip(e, med, spread) ==
    IF IsNone(e) \/ spread.kind = "nan" THEN e
    ELSE ClipAt(e, RatSub(Lin(e), med), med, spread)

ClipAll(s, med, spread) == [k \in 1..Len(s) |-> Clip(s[k], med, spread)]

WinsorizeAround(s, vals, med) == ClipAll(s, med, Spread(s, vals, med))

WinsorizeOver(s, vals) == IF vals = <<>> THEN s ELSE WinsorizeAround(s, vals, Median(vals))

\* winsorize(series)
winsorize(s) == WinsorizeOver(s, NonNull(s))

----------------------------------------------------------------------------
(* smooth_series *)

\* a series of fewer points is returned as it is
MinPoints == 5

\* statsmodels lowess(values, dates, frac=0.3, return_sorted=False): one fitted
\* value per point, each a function of the whole series; the fit is not computed
Lowess(values, dates) ==
    [k \in 1..Len(values) |-> Some([lowess |-> k, endog |-> values, exog |-> dates])]

\* mutant: short series are fitted too
smooth_series_AlwaysFit(dates, values) == Lowess(values, dates)

\* smooth_series(dates, values)
smooth_series(dates, values) ==
    IF Len(values) < MinPoints THEN values ELSE Lowess(values, dates)

----------------------------------------------------------------------------
(* The script 10-smooth-series.py over the assembled table *)

\* pd.to_datetime(df['fiscal_year'], format='%Y'): the first day of the year
ToDatetime(year) == [year |-> year, month |-> 1, day |-> 1]

\* toordinal of a date of the table; only the order of the ordinals is kept
ToOrdinal(date) == date.year

\* num_cols: the columns of numeric dtype; a column holding nothing but null is
\* read back as an object column and is not among them
NumCols(rows) ==
    {col \in ColumnNames : \E k \in 1..Len(rows) : ~IsNone(rows[k][col])}

\* the companies of the table: the keys of groupby('company_name')
GroupKeys(rows) == {rows[k].company_name[1] : k \in 1..Len(rows)}

\* the positions of the rows of one company, ordered as sort_values('fiscal_year')
\* (a stable sort) orders them
RECURSIVE InsertPos(_, _, _)
InsertPos(rows, k, pos) ==
    IF pos = <<>> THEN <<k>>
    ELSE IF rows[k].fiscal_year[1] <= rows[Head(pos)].fiscal_year[1] THEN <<k>> \o pos
    ELSE <<Head(pos)>> \o InsertPos(rows, k, Tail(pos))

RECURSIVE GroupPos(_, _, _)
GroupPos(rows, company, k) ==
    IF k > Len(rows) THEN <<>>
    ELSE IF rows[k].company_name[1] = company
         THEN InsertPos(rows, k, GroupPos(rows, company, k + 1))
         ELSE GroupPos(rows, company, k + 1)

\* group[col] as a series of cells
ColumnOf(rows, pos, col) ==
    [k \in 1..Len(pos) |->
        IF IsNone(rows[pos[k]][col]) THEN NaN ELSE Plain(rows[pos[k]][col][1])]

\* dates_ordinal of the group
DatesOf(rows, pos) == [k \in 1..Len(pos) |-> ToOrdinal(ToDatetime(rows[pos[k]].fiscal_year[1]))]

\* mutant: the outliers are capped before the scale is adjusted
SmoothColumn_WinsorizeFirst(dates, s, kmeans) ==
    smooth_series(dates, adjust_scale(winsorize(s), kmeans))

\* the three steps applied to one column of one company
SmoothColumn(dates, s, kmeans) == smooth_series(dates, winsorize(adjust_scale(s, kmeans)))

\* mutant: the cleaned values replace the raw column
SmoothedName_Raw(col) == col

\* col + '_smoothed'
SmoothedName(col) == col \o "_smoothed"

\* the row of the group at position k with its smoothed companions
OutRow(rows, pos, k, num_cols, fits) ==
    LET row == rows[pos[k]]
        company == row.company_name[1]
        names == {SmoothedName(col) : col \in num_cols}
    IN  [name \in (DOMAIN row) \cup names |->
            IF name \in names
            THEN LET col == CHOOSE c \in num_cols : SmoothedName(c) = name
                 IN  SmoothColumn(DatesOf(rows, pos), ColumnOf(rows, pos, col),
                                  fits[<<company, col>>])[k]
            ELSE IF name = "fiscal_year" THEN Some(ToDatetime(row.fiscal_year[1]))
            ELSE row[name]]

GroupFrame(rows, pos, num_cols, fits) ==
    [k \in 1..Len(pos) |-> OutRow(rows, pos, k, num_cols, fits)]

\* pd.concat(result_frames): the groups in the sorted order of their keys
RECURSIVE ConcatGroups(_, _, _, _)
ConcatGroups(rows, k, num_cols, fits) ==
    IF k > Len(CompanyOrder) THEN <<>>
    ELSE (IF CompanyOrder[k] \in GroupKeys(rows)
          THEN GroupFrame(rows, GroupPos(rows, CompanyOrder[k], 1), num_cols, fits)
          ELSE <<>>)
         \o ConcatGroups(rows, k + 1, num_cols, fits)

\* the fits the script can obtain, one for every column of every company
FitsOf(rows) ==
    LET keys == GroupKeys(rows) \X NumCols(rows)
        fitsAt(key) == KMeansOf(ColumnOf(rows, GroupPos(rows, key[1], 1), key[2]))
    IN  {f \in [keys -> UNION {fitsAt(key) : key \in keys}] :
            \A key \in keys : f[key] \in fitsAt(key)}

\* the whole script; read_parquet raises when the assembler wrote no table
SmoothTable ==
    /\ asmPc # "idle"
    /\ smoothPc = "idle"
    /\ IF IsNone(table)
       THEN smoothPc' = "crashed" /\ smoothedTable' = smoothedTable
       ELSE /\ smoothPc' = "written"
            /\ \E fits \in FitsOf(table[1]) :
                  smoothedTable' = Some(ConcatGroups(table[1], 1, NumCols(table[1]), fits))
    /\ UNCHANGED <<store, cwdIsBase, listing, pc, queue, called, summaries, skipped,
                   primaryOf, consulted, filenames, table, asmPc, fieldCall, fieldResult,
                   series, seriesOut, rerunVars, extractVars>>

----------------------------------------------------------------------------
(* Direct calls of the functions of 10-smooth-series.py *)

AdjustScale ==
    /\ ~IsNone(series)
    /\ IsNone(seriesOut)
    /\ series[1].fn = "adjust_scale"
    /\ \E kmeans \in KMeansOf(series[1].values) :
          seriesOut' = Some([kmeans |-> kmeans,
                             value |-> adjust_scale(series[1].values, kmeans)])
    /\ UNCHANGED <<store, cwdIsBase, listing, pc, queue, called, summaries, skipped,
                   primaryOf, consulted, filenames, table, asmPc, fieldCall, fieldResult,
                   series, smoothedTable, smoothPc, rerunVars, extractVars>>

Winsorize ==
    /\ ~IsNone(series)
    /\ IsNone(seriesOut)
    /\ series[1].fn = "winsorize"
    /\ seriesOut' = Some([value |-> winsorize(series[1].values)])
    /\ UNCHANGED <<store, cwdIsBase, listing, pc, queue, called, summaries, skipped,
                   primaryOf, consulted, filenames, table, asmPc, fieldCall, fieldResult,
                   series, smoothedTable, smoothPc, rerunVars, extractVars>>

SmoothSeries ==
    /\ ~IsNone(series)
    /\ IsNone(seriesOut)
    /\ series[1].fn = "smooth_series"
    /\ seriesOut' = Some([value |-> smooth_series(series[1].dates, series[1].values)])
    /\ UNCHANGED <<store, cwdIsBase, listing, pc, queue, called, summaries, skipped,
                   primaryOf, consulted, filenames, table, asmPc, fieldCall, fieldResult,
                   series, smoothedTable, smoothPc, rerunVars, extractVars>>

----------------------------------------------------------------------------
(* Direct call of the field reconciler *)

Reconcile ==
    /\ ~IsNone(fieldCall)
    /\ IsNone(fieldResult)
    /\ fieldResult' = Some(process_numeric_field(fieldCall[1].field_path,
                                                 fieldCall[1].reports,
                                                 fieldCall[1].company,
                                                 fieldCall[1].year))
    /\ UNCHANGED <<store, cwdIsBase, listing, pc, queue, called, summaries, skipped,
                   primaryOf, consulted, filenames, table, asmPc, fieldCall, stageVars, rerunVars, extractVars>>

----------------------------------------------------------------------------
(* Extraction stage: process_financial_reports of 05-structure-docs.py and *)
(* process_single_report of 06-structure-docs-async.py.  OUTPUT_PATH is    *)
(* the directory 08-smooth-numerics.py reads as base_dir: the store.       *)

\* number of PDFs listed in the Excel file of an extraction run
MaxPdfs == 2

\* number of runs of the extraction script
MaxRuns == 3

\* the PDFs of df.iterrows(), as (company, year)
PdfsOf(names) == {<<names[k].company, names[k].year>> : k \in 1..Len(names)}

\* OUTPUT_PATH/pdf_filename.replace(".pdf", "_{i}.json")
OutputFile(pdf, i) == <<pdf[1], pdf[2], i>>

\* os.path.exists(output_file_path_first)
FirstOutputExists(pdf) == store[OutputFile(pdf, 1)] # Absent

\* response.parsed: None when the reply does not parse into the model, else a
\* FinancialReport
ParsedKinds == {None, Some(<<"reading", 1>>)}

\* what extract_structured_data(pdf_path, FinancialReport, 3) can return
Responses == [1..Len(Attempts) -> ParsedKinds]

\* the first index at which parsed_data.model_dump() raises because parsed_data
\* is None, Len(responses) + 1 when every response parsed
RECURSIVE FirstUnparsed(_, _)
FirstUnparsed(responses, i) ==
    IF i > Len(responses) \/ IsNone(responses[i]) THEN i
    ELSE FirstUnparsed(responses, i + 1)

\* OUTPUT_PATH after the saving loop: the responses before index stop are
\* saved; left is TRUE when open() created the file at index stop and
\* json.dump raised before it was complete
SaveResponses(pdf, responses, stop, left) ==
    [s \in DOMAIN store |->
        IF <<s[1], s[2]>> # pdf THEN store[s]
        ELSE IF s[3] < stop THEN responses[s[3]][1]
        ELSE IF s[3] = stop /\ left THEN <<"malformed", 0>>
        ELSE store[s]]

\* a run of the script starts: pd.read_excel, which may raise (the run returns)
ExtractStart ==
    /\ pending = {}
    /\ exRun < MaxRuns
    /\ exRun' = exRun + 1
    /\ \E readable \in BOOLEAN :
          pending' = IF readable THEN PdfsOf(filenames) ELSE {}
    /\ extractLog' = [pdf \in PdfsOf(filenames) |-> "none"]
    /\ UNCHANGED <<store, cwdIsBase, listing, pc, queue, called, summaries, skipped,
                   primaryOf, consulted, filenames, table, asmPc, fieldCall, fieldResult,
                   stageVars, rerunVars>>

\* one PDF is handled: the body of the loop of process_financial_reports, and
\* process_single_report.  The tasks of the async script interleave, each on
\* the files of its own PDF.
ProcessReport ==
    /\ \E pdf \in pending :
          /\ pending' = pending \ {pdf}
          /\ IF FirstOutputExists(pdf)
             THEN /\ extractLog' = [extractLog EXCEPT ![pdf] = "skipped"]
                  /\ store' = store
             ELSE \E extracted \in {None} \cup {Some(r) : r \in Responses} :
                     IF IsNone(extracted)
                     THEN /\ extractLog' = [extractLog EXCEPT ![pdf] = "failed"]
                          /\ store' = store
                     ELSE \E stop \in 1..FirstUnparsed(extracted[1], 1), left \in BOOLEAN :
                             /\ left => stop < FirstUnparsed(extracted[1], 1)
                             /\ store' = SaveResponses(pdf, extracted[1], stop, left)
                             /\ extractLog' =
                                   [extractLog EXCEPT
                                       ![pdf] = IF stop > Len(Attempts) THEN "saved"
                                                ELSE "failed"]
    /\ UNCHANGED <<cwdIsBase, listing, pc, queue, called, summaries, skipped,
                   primaryOf, consulted, filenames, table, asmPc, fieldCall, fieldResult,
                   stageVars, rerunVars, exRun>>

----------------------------------------------------------------------------
(* Inputs *)

\* years of company "A" in the data store of a batch run
MaxYear == 2

\* number of attempt files present in the data store of a batch run
MaxFiles == 3

\* number of attempt files present in the adjacent years of a direct call
MaxAdjFiles == 1

\* length of the filename list handed to the assembler
MaxNames == 3

Years == 1..MaxYear

AttemptSet == {Attempts[k] : k \in 1..Len(Attempts)}

\* company "A" has reports for every year, company "B" for the first year only
Units == ({"A"} \X Years) \cup {<<"B", 1>>}

\* the attempt files base_dir can hold: all three attempts of the first year of
\* "A", the first two attempts of its later years, the first attempt of "B"
Slots ==
    ({"A"} \X {1} \X AttemptSet)
        \cup ({"A"} \X (Years \ {1}) \X {Attempts[1], Attempts[2]})
        \cup {<<"B", 1, 1>>}

FileKinds == {<<"malformed", 0>>, <<"empty", 0>>, <<"reading", 1>>, <<"reading", 2>>}

\* the PDF filenames of all units, sorted as 05-make-filenames-to-loop-through.py does
PdfNames ==
    LET names == SortedUnits("A", Years) \o <<(<<"B", 1>>)>>
    IN  [k \in 1..Len(names) |-> [company |-> names[k][1], year |-> names[k][2]]]

\* os.listdir order of the companies that have files
Listings ==
    LET have == {c \in Companies : YearsOf(c) # {}}
    IN  IF have = Companies THEN {CompanyOrder, <<CompanyOrder[2], CompanyOrder[1]>>}
        ELSE {CompanyOrder}

InitRest ==
    /\ pc = "start"
    /\ queue = <<>>
    /\ called = {}
    /\ summaries = [u \in Units |-> None]
    /\ skipped = {}
    /\ consulted = [u \in Units |-> {}]
    /\ primaryOf = [u \in Units |-> 0]
    /\ table = None
    /\ asmPc = "idle"
    /\ smoothedTable = None
    /\ smoothPc = "idle"
    /\ run = 1
    /\ firstRun = None
    /\ pending = {}
    /\ exRun = 0
    /\ extractLog = [u \in {} |-> "none"]

Init ==
    /\ \E present \in {p \in SUBSET Slots : Cardinality(p) <= MaxFiles} :
          \E f \in [present -> FileKinds] :
             store = [s \in Slots |-> IF s \in present THEN f[s] ELSE Absent]
    /\ cwdIsBase \in BOOLEAN
    /\ listing \in Listings
    /\ filenames = PdfNames
    /\ fieldCall = None
    /\ fieldResult = None
    /\ series = None
    /\ seriesOut = None
    /\ InitRest

Next == MainStart \/ MainStep \/ Assemble \/ SmoothTable

Spec == Init /\ [][Next]_vars

\* 08-smooth-numerics.py run on its own
NextBatch == MainStart \/ MainStep

SpecBatch == Init /\ [][NextBatch]_vars

----------------------------------------------------------------------------
(* Direct calls of process_numeric_field: the reports of year 3 of company "A" *)
(* are the argument, the attempt files of the years 1, 2, 4 and 5 the store    *)

CurrentValues == {None} \cup {Some(v) : v \in {-5, 5, 100, 110, 1000}}

AdjacentKinds == {<<"fieldnull", 0>>, <<"field", 0>>, <<"field", 100>>}

AdjacentSlots == {"A"} \X {1, 2, 4, 5} \X AttemptSet

ReportLists == UNION {[1..n -> CurrentValues] : n \in 1..Len(Attempts)}

InitField ==
    /\ \E present \in {p \in SUBSET AdjacentSlots : Cardinality(p) <= MaxAdjFiles} :
          \E f \in [present -> AdjacentKinds] :
             store = [s \in AdjacentSlots |-> IF s \in present THEN f[s] ELSE Absent]
    /\ cwdIsBase \in BOOLEAN
    /\ \E vals \in ReportLists :
          fieldCall = Some([field_path |-> <<"income_statement", "revenue">>,
                            reports |-> [k \in 1..Len(vals) |-> FieldDoc("A", 3, vals[k])],
                            company |-> "A", year |-> 3])
    /\ fieldResult = None
    /\ listing = CompanyOrder
    /\ filenames = <<>>
    /\ series = None
    /\ seriesOut = None
    /\ InitRest

NextField == Reconcile

SpecField == InitField /\ [][NextField]_vars

----------------------------------------------------------------------------
(* Direct calls of process_numeric_field on disagreeing values, with attempt *)
(* files, loadable or not, on both sides of the year of the call             *)

\* number of attempt files present in the years around the call
MaxPoolFiles == 2

\* an unparseable file, a reading with a null revenue, readings with a revenue
PoolKinds == {<<"malformed", 0>>, <<"fieldnull", 0>>, <<"field", 100>>, <<"field", 110>>}

\* values that agree, values that disagree, values of mean 0
PoolLists ==
    {<<Some(100), Some(110)>>, <<Some(100), Some(1000)>>, <<Some(-5), Some(5)>>}

InitPool ==
    /\ \E present \in {p \in SUBSET AdjacentSlots : Cardinality(p) <= MaxPoolFiles} :
          \E f \in [present -> PoolKinds] :
             store = [s \in AdjacentSlots |-> IF s \in present THEN f[s] ELSE Absent]
    /\ cwdIsBase \in BOOLEAN
    /\ \E vals \in PoolLists :
          fieldCall = Some([field_path |-> <<"income_statement", "revenue">>,
                            reports |-> [k \in 1..Len(vals) |-> FieldDoc("A", 3, vals[k])],
                            company |-> "A", year |-> 3])
    /\ fieldResult = None
    /\ listing = CompanyOrder
    /\ filenames = <<>>
    /\ series = None
    /\ seriesOut = None
    /\ InitRest

SpecPool == InitPool /\ [][NextField]_vars

----------------------------------------------------------------------------
(* Assembler runs over arbitrary filename lists *)

NameLists ==
    UNION {[1..n -> {[company |-> u[1], year |-> u[2]] : u \in Units}] : n \in 0..MaxNames}

InitTable ==
    /\ \E present \in SUBSET Units :
          store = [s \in Slots |-> IF <<s[1], s[2]>> \in present /\ s[3] = 1
                                   THEN <<"reading", 1>> ELSE Absent]
    /\ cwdIsBase = FALSE
    /\ listing \in Listings
    /\ filenames \in NameLists
    /\ fieldCall = None
    /\ fieldResult = None
    /\ series = None
    /\ seriesOut = None
    /\ InitRest

SpecTable == InitTable /\ [][Next]_vars

----------------------------------------------------------------------------
(* Direct calls of adjust_scale, winsorize and smooth_series *)

\* number of positive cells of a series handed to adjust_scale
MaxLen == 15

\* number of copies of the common value in a series handed to winsorize
MaxCopies == 20

\* number of cells of each further kind in a series
MaxOther == 1

\* counts[k] copies of cells[k], one kind after the other
RECURSIVE Blocks(_, _, _)
Blocks(cells, counts, k) ==
    IF k > Len(cells) THEN <<>>
    ELSE [j \in 1..counts[k] |-> cells[k]] \o Blocks(cells, counts, k + 1)

Reverse(s) == [k \in 1..Len(s) |-> s[Len(s) + 1 - k]]

\* the positive cells are powers of ten: 1, 10^(1/2), 1000
ScaleCells ==
    <<Val(One, Zero), Val(One, [num |-> 1, den |-> 2]), Val(One, [num |-> 3, den |-> 1])>>

\* cells adjust_scale does not count: null, zero, a negative number
OtherCells == <<NaN, Plain(Zero), Plain([num |-> -5, den |-> 1])>>

ScaleSeries ==
    {Blocks(ScaleCells \o OtherCells, pos \o other, 1) :
        pos \in {c \in [1..Len(ScaleCells) -> 0..MaxLen] : SumSeq(c) <= MaxLen},
        other \in [1..Len(OtherCells) -> 0..MaxOther]}

\* a common value, two values near it, an outlier a hundred times larger, zero, null
LinearCells ==
    <<Plain(One), Plain([num |-> 2, den |-> 1]),
      Plain([num |-> 3, den |-> 1]), Plain([num |-> 100, den |-> 1]), Plain(Zero), NaN>>

LinearSeries ==
    {Blocks(LinearCells, <<copies>> \o other, 1) :
        copies \in 0..MaxCopies,
        other \in [1..(Len(LinearCells) - 1) -> 0..MaxOther]}

SeriesCall(fn, values) ==
    Some([fn |-> fn, values |-> values, dates |-> [k \in 1..Len(values) |-> k]])

InitSeries ==
    /\ \/ \E s \in ScaleSeries : \E values \in {s, Reverse(s)} :
             series = SeriesCall("adjust_scale", values)
       \/ \E s \in LinearSeries : \E values \in {s, Reverse(s)} :
             \E fn \in {"winsorize", "smooth_series"} : series = SeriesCall(fn, values)
    /\ seriesOut = None
    /\ store = [s \in Slots |-> Absent]
    /\ cwdIsBase = FALSE
    /\ listing = CompanyOrder
    /\ filenames = <<>>
    /\ fieldCall = None
    /\ fieldResult = None
    /\ InitRest

NextSeries == AdjustScale \/ Winsorize \/ SmoothSeries

SpecSeries == InitSeries /\ [][NextSeries]_vars

----------------------------------------------------------------------------
(* Runs of 10-smooth-series.py on the table of one company with many years *)

\* number of years of the company whose revenue is 1
MaxSmall == 12

\* number of years of each further kind: revenue 1000, 0, null
MaxFew == 2

\* the revenue values of the table: 1, 1000, 0, null
StageCells == <<Some(One), Some([num |-> 1000, den |-> 1]), Some(Zero), None>>

StageColumns ==
    {Blocks(StageCells, <<small>> \o few, 1) :
        small \in 0..MaxSmall, few \in [1..(Len(StageCells) - 1) -> 0..MaxFew]}

\* the assembled table of company "A" with one row per year
StageTable(column) ==
    [k \in 1..Len(column) |->
        [col \in {"company_name", "fiscal_year"} \cup ColumnNames |->
            IF col = "company_name" THEN Some("A")
            ELSE IF col = "fiscal_year" THEN Some(k)
            ELSE IF col = "revenue" THEN column[k]
            ELSE None]]

InitStage ==
    /\ \E c \in StageColumns \ {<<>>} : \E column \in {c, Reverse(c)} :
          table = Some(StageTable(column))
    /\ pc = "done"
    /\ asmPc = "written"
    /\ queue = <<>>
    /\ called = {}
    /\ summaries = [u \in Units |-> None]
    /\ skipped = {}
    /\ consulted = [u \in Units |-> {}]
    /\ primaryOf = [u \in Units |-> 0]
    /\ smoothedTable = None
    /\ smoothPc = "idle"
    /\ run = 1
    /\ firstRun = None
    /\ pending = {}
    /\ exRun = 0
    /\ extractLog = [u \in {} |-> "none"]
    /\ store = [s \in Slots |-> Absent]
    /\ cwdIsBase = FALSE
    /\ listing = CompanyOrder
    /\ filenames = <<>>
    /\ fieldCall = None
    /\ fieldResult = None
    /\ series = None
    /\ seriesOut = None

NextStage == SmoothTable

SpecStage == InitStage /\ [][NextStage]_vars

----------------------------------------------------------------------------
(* Runs of the extraction scripts *)

\* the rows of filenames_to_loop_through.xlsx
ExtractNames == [k \in 1..MaxPdfs |-> [company |-> "A", year |-> k]]

\* OUTPUT_PATH before the first run: of each PDF no output, or the three
\* outputs of an earlier complete extraction
InitExtract ==
    /\ \E done \in SUBSET PdfsOf(ExtractNames) :
          store = [s \in {OutputFile(pdf, i) : pdf \in PdfsOf(ExtractNames), i \in AttemptSet} |->
                      IF <<s[1], s[2]>> \in done THEN <<"reading", 1>> ELSE Absent]
    /\ filenames = ExtractNames
    /\ pending = {}
    /\ exRun = 0
    /\ extractLog = [pdf \in PdfsOf(ExtractNames) |-> "none"]
    /\ cwdIsBase = FALSE
    /\ listing = CompanyOrder
    /\ pc = "start"
    /\ queue = <<>>
    /\ called = {}
    /\ summaries = [u \in Units |-> None]
    /\ skipped = {}
    /\ consulted = [u \in Units |-> {}]
    /\ primaryOf = [u \in Units |-> 0]
    /\ table = None
    /\ asmPc = "idle"
    /\ fieldCall = None
    /\ fieldResult = None
    /\ series = None
    /\ seriesOut = None
    /\ smoothedTable = None
    /\ smoothPc = "idle"
    /\ run = 1
    /\ firstRun = None

NextExtract == ExtractStart \/ ProcessReport

SpecExtract == InitExtract /\ [][NextExtract]_vars

----------------------------------------------------------------------------
(* A second run of the three scripts.  The scripts keep no state between    *)
(* runs but the files they wrote: the summary files, the assembled table    *)
(* and the smoothed table stay on disk until a later run overwrites them.   *)

\* every script of the run has ended
Completed ==
    /\ pc \in {"done", "crashed", "nofiles"}
    /\ asmPc # "idle"
    /\ smoothPc # "idle"

\* what a run read and what it left on disk
RunRecord ==
    [store |-> store, listing |-> listing, summaries |-> summaries,
     table |-> table, smoothedTable |-> smoothedTable]

\* the scripts start again
Restart ==
    /\ pc' = "start"
    /\ queue' = <<>>
    /\ called' = {}
    /\ skipped' = {}
    /\ consulted' = [u \in Units |-> {}]
    /\ primaryOf' = [u \in Units |-> 0]
    /\ asmPc' = "idle"
    /\ smoothPc' = "idle"

\* the attempt files of company "A": none, one reading of its first year, or two
\* disagreeing readings of its first year next to a reading of its second year
AFiles(n, slot) ==
    IF n = 1 /\ slot = <<"A", 1, 1>> THEN <<"reading", 1>>
    ELSE IF n = 2 /\ slot = <<"A", 1, 1>> THEN <<"reading", 1>>
    ELSE IF n = 2 /\ slot = <<"A", 1, 2>> THEN <<"reading", 2>>
    ELSE IF n = 2 /\ slot = <<"A", 2, 1>> THEN <<"reading", 2>>
    ELSE Absent

\* the data stores of the runs that are compared
RerunStores ==
    {[slot \in Slots |-> IF slot[1] = "A" THEN AFiles(n, slot)
                         ELSE IF slot = <<"B", 1, 1>> THEN b ELSE Absent] :
        n \in 0..2, b \in {Absent, <<"reading", 1>>, <<"malformed", 0>>}}

\* the two stores hold the same attempt files of a company
AgreeOn(st1, st2, company) ==
    \A slot \in DOMAIN st1 : slot[1] = company => st1[slot] = st2[slot]

\* the pipeline is run again on the unchanged data store, with the outputs of
\* the first run on disk; os.listdir may report the files in another order
Rerun ==
    /\ run = 1
    /\ Completed
    /\ run' = 2
    /\ firstRun' = Some(RunRecord)
    /\ listing' \in {CompanyOrder, Reverse(CompanyOrder)}
    /\ Restart
    /\ UNCHANGED <<store, cwdIsBase, summaries, filenames, table, fieldCall, fieldResult,
                   series, seriesOut, smoothedTable, extractVars>>

\* the pipeline is run on another data store that holds the same attempt files
\* of one company, with empty output directories and the same listing order
RerunChanged ==
    /\ run = 1
    /\ Completed
    /\ run' = 2
    /\ firstRun' = Some(RunRecord)
    /\ \E st \in RerunStores \ {store} :
          /\ \E company \in Companies : AgreeOn(store, st, company)
          /\ store' = st
    /\ summaries' = [u \in Units |-> None]
    /\ table' = None
    /\ smoothedTable' = None
    /\ Restart
    /\ UNCHANGED <<cwdIsBase, listing, filenames, fieldCall, fieldResult, series, seriesOut, extractVars>>

InitRerun ==
    /\ store \in RerunStores
    /\ cwdIsBase \in BOOLEAN
    /\ listing \in {CompanyOrder, Reverse(CompanyOrder)}
    /\ filenames = PdfNames
    /\ fieldCall = None
    /\ fieldResult = None
    /\ series = None
    /\ seriesOut = None
    /\ InitRest

NextRerun == MainStart \/ MainStep \/ Assemble \/ SmoothTable \/ Rerun \/ RerunChanged

SpecRerun == InitRerun /\ [][NextRerun]_vars

----------------------------------------------------------------------------
(* Claims about the field reconciler, checked under SpecField *)

\* the non-null revenue values of the reports handed to the direct call
CallValues ==
    LET reports == fieldCall[1].reports
        RECURSIVE Pick(_)
        Pick(k) ==
            IF k > Len(reports) THEN <<>>
            ELSE (IF IsNone(reports[k].income_statement[1].revenue) THEN <<>>
                  ELSE <<reports[k].income_statement[1].revenue[1]>>)
                 \o Pick(k + 1)
    IN  Pick(1)

\* (max - min) / |mean| < 0.2 for a non-empty list of integers with non-zero mean
DiscrepancyBelow(values) ==
    /\ SumSeq(values) # 0
    /\ 5 * Len(values) * (MaxSeq(values) - MinSeq(values)) < Abs(SumSeq(values))

\* the revenue values load_year_reports can find in the years around the call
AdjacentFound ==
    FieldValues(AdjacentReports(fieldCall[1].company, fieldCall[1].year).reports,
                fieldCall[1].field_path, 1)

\* C1: one to three non-null values whose relative discrepancy (max - min) / |mean|
\* is below 0.2 are reconciled to exactly their arithmetic mean, and no adjacent
\* year is consulted.
C1_AgreeingValuesGiveMean ==
    (~IsNone(fieldResult) /\ CallValues # <<>> /\ DiscrepancyBelow(CallValues))
        => /\ ~fieldResult[1].raised
           /\ fieldResult[1].value = Some(Rat(SumSeq(CallValues), Len(CallValues)))
           /\ fieldResult[1].years = {}

\* C1 witness: three differing but agreeing values, with an adjacent value on disk
\* that a lookup would have found
C1_Witness ==
    /\ ~IsNone(fieldResult)
    /\ Len(CallValues) = 3
    /\ DiscrepancyBelow(CallValues)
    /\ MaxSeq(CallValues) # MinSeq(CallValues)
    /\ AdjacentFound # <<>>
    /\ fieldResult[1].value = Some(Rat(SumSeq(CallValues), 3))

\* C2: reconciling a field never raises, whatever the current-year and the
\* adjacent-year values are (adjacent values of mean 0 included).
C2_NeverRaises ==
    ~IsNone(fieldResult) => ~fieldResult[1].raised

\* C3: when the discrepancy of the current values is 0.2 or more and no adjacent
\* value of the field is found on either side, the result is the plain mean of
\* all current non-null values.
C3_NoAdjacentGivesMean ==
    (/\ ~IsNone(fieldResult)
     /\ CallValues # <<>>
     /\ SumSeq(CallValues) # 0
     /\ ~DiscrepancyBelow(CallValues)
     /\ AdjacentFound = <<>>)
        => /\ ~fieldResult[1].raised
           /\ fieldResult[1].value = Some(Rat(SumSeq(CallValues), Len(CallValues)))

\* C3 witness: [100, 100, 1000] with no adjacent value gives 400, after the
\* adjacent years were consulted
C3_Witness ==
    /\ ~IsNone(fieldResult)
    /\ CallValues = <<100, 100, 1000>>
    /\ AdjacentFound = <<>>
    /\ fieldResult[1].years # {}
    /\ fieldResult[1].value = Some([num |-> 400, den |-> 1])

----------------------------------------------------------------------------
(* Claims about the year summarizer and the batch, checked under Spec *)

\* what the data store holds for attempt i of a unit
SlotKind(u, i) ==
    IF <<u[1], u[2], i>> \in DOMAIN store THEN store[<<u[1], u[2], i>>] ELSE Absent

\* attempt i of the unit exists, parses and is a non-empty document
Valid(u, i) == SlotKind(u, i)[1] \in {"reading", "field", "fieldnull"}

ValidAttempts(u) == {i \in AttemptSet : Valid(u, i)}

\* the attempt the claims name as primary: attempt 1 when valid, else the
\* lowest valid attempt among 2 and 3
ExpectedPrimary(u) ==
    IF Valid(u, 1) THEN 1
    ELSE CHOOSE i \in ValidAttempts(u) : \A j \in ValidAttempts(u) : i <= j

ExpectedPrimaryDoc(u) ==
    FileOf(<<u[1], u[2], ExpectedPrimary(u)>>, SlotKind(u, ExpectedPrimary(u))).doc

GroupSet == {Groups[k] : k \in 1..Len(Groups)}

\* the units that have a row in the assembled table
RowUnits ==
    IF IsNone(table) THEN {}
    ELSE {<<table[1][k].company_name[1], table[1][k].fiscal_year[1]>> :
            k \in 1..Len(table[1])}

C5_BatchReachesEveryUnit ==
    pc \in {"done", "crashed"} => Discovered \subseteq called

\* C6: every key of the primary attempt's income_statement, balance_sheet and
\* employees groups has an entry under the same group of the summary.
C6_PrimaryKeysKept ==
    \A u \in Units :
        ~IsNone(summaries[u])
            => LET primary_report == ExpectedPrimaryDoc(u)
               IN  \A g \in GroupSet :
                      DOMAIN GroupData(primary_report, g)
                          \subseteq DOMAIN summaries[u][1][g]

\* C6 witness: a summary whose primary attempt holds a null field, reconciled
\* over two attempts
C6_Witness ==
    \E u \in Units :
        /\ ~IsNone(summaries[u])
        /\ Cardinality(ValidAttempts(u)) = 2
        /\ "net_income" \in DOMAIN GroupData(ExpectedPrimaryDoc(u), "income_statement")
        /\ IsNone(summaries[u][1].income_statement["net_income"])

\* C7: the primary attempt is attempt 1 when its file exists and loads to a
\* non-empty document, otherwise the lowest attempt among 2 and 3 that does.
C7_PrimaryIsFirstValid ==
    \A u \in Units :
        (u \in called /\ ValidAttempts(u) # {}) => primaryOf[u] = ExpectedPrimary(u)

\* C7 witness: attempt 1 unparseable, attempt 2 the empty document, attempt 3 primary
C7_Witness ==
    \E u \in Units :
        /\ u \in called
        /\ SlotKind(u, 1)[1] = "malformed"
        /\ SlotKind(u, 2)[1] = "empty"
        /\ primaryOf[u] = 3
        /\ ~IsNone(summaries[u])

\* the documents of the valid attempts of a unit, in attempt order
RemainingReports(u) ==
    LET RECURSIVE Pick(_)
        Pick(k) ==
            IF k > Len(Attempts) THEN <<>>
            ELSE (IF Valid(u, Attempts[k])
                  THEN <<FileOf(<<u[1], u[2], Attempts[k]>>, SlotKind(u, Attempts[k])).doc>>
                  ELSE <<>>)
                 \o Pick(k + 1)
    IN  Pick(1)

\* C8: with one or two of the three attempts absent or unparseable a summary is
\* still produced, and every reconciled value is the reconciliation of the
\* values of the attempts that remain.
C8_MissingAttemptsTolerated ==
    \A u \in Units :
        (u \in called /\ Cardinality(ValidAttempts(u)) \in {1, 2})
            => /\ ~IsNone(summaries[u])
               /\ \A g \in GroupSet : \A key \in DOMAIN summaries[u][1][g] :
                     summaries[u][1][g][key] =
                        process_numeric_field(<<g, key>>, RemainingReports(u),
                                              u[1], u[2]).value

\* C9: board, auditors and additional_notes of a summary are those of the
\* primary attempt, whatever the other attempts hold.
C9_NonNumericFromPrimary ==
    \A u \in Units :
        ~IsNone(summaries[u])
            => LET primary_report == ExpectedPrimaryDoc(u)
               IN  /\ summaries[u][1].board = primary_report.board
                   /\ summaries[u][1].auditors = primary_report.auditors
                   /\ summaries[u][1].additional_notes = primary_report.additional_notes

\* C9 witness: the primary is attempt 2, and attempt 3 holds another board,
\* other auditors and other notes
C9_Witness ==
    \E u \in Units :
        /\ ~IsNone(summaries[u])
        /\ primaryOf[u] = 2
        /\ Valid(u, 3)
        /\ SlotKind(u, 3) # SlotKind(u, 2)
        /\ summaries[u][1].board = ExpectedPrimaryDoc(u).board

----------------------------------------------------------------------------
(* Claims about the assembled table, checked under SpecTable *)

\* C10: the table has at most one row per (company_name, fiscal_year) and its
\* rows are sorted ascending by (company_name, fiscal_year), for every list of
\* filenames.
C10_RowsUniqueAndSorted ==
    ~IsNone(table)
        => /\ \A j, k \in 1..Len(table[1]) :
                 (j # k) =>
                    <<table[1][j].company_name, table[1][j].fiscal_year>>
                        # <<table[1][k].company_name, table[1][k].fiscal_year>>
           /\ \A j \in 1..(Len(table[1]) - 1) : RowLeq(table[1][j], table[1][j + 1])

----------------------------------------------------------------------------
(* Claims about the columns of the assembled table, checked under Spec *)

\* the summary a row of the table was built from
RowSummary(row) == summaries[<<row.company_name[1], row.fiscal_year[1]>>][1]

\* the numeric field names of a summary
SummaryFields(summary) == UNION {DOMAIN summary[g] : g \in GroupSet}

\* C11: the table has a column for every numeric field name that occurs in the
\* summary of any row, every row holds its summary's value of each field, and a
\* row whose summary lacks the field of a column holds null there.
C11_UnionOfColumns ==
    ~IsNone(table)
        => \A j, k \in 1..Len(table[1]) :
              LET row == table[1][k]
              IN  /\ SummaryFields(RowSummary(table[1][j])) \subseteq DOMAIN row
                  /\ \A g \in GroupSet : \A key \in DOMAIN RowSummary(row)[g] :
                        row[key] = RowSummary(row)[g][key]
                  /\ \A col \in (DOMAIN row) \ {"company_name", "fiscal_year"} :
                        col \notin SummaryFields(RowSummary(row)) => IsNone(row[col])

----------------------------------------------------------------------------
(* Claims about the series functions, checked under SpecSeries *)

SeriesDone(fn) == ~IsNone(series) /\ ~IsNone(seriesOut) /\ series[1].fn = fn

\* the positions of the positive cells whose log10 lies between lo and hi
CellsBetween(s, lo, hi) ==
    {k \in 1..Len(s) : IsPositive(s[k]) /\ RatLeq(lo, s[k][1].log) /\ RatLeq(s[k][1].log, hi)}

\* C12: when 5 of 15 positive values are about 1000 times the other 10,
\* adjust_scale leaves the 10 values unchanged and rescales only the 5 values,
\* by a factor of about 1000.
C12_MinorityRescaled ==
    SeriesDone("adjust_scale")
        => LET s == series[1].values
               out == seriesOut[1].value
               low == CellsBetween(s, Zero, [num |-> 1, den |-> 2])
               high == CellsBetween(s, [num |-> 3, den |-> 1], [num |-> 7, den |-> 2])
           IN  Cardinality(low) = 10 /\ Cardinality(high) = 5
                  => /\ \A k \in low : out[k] = s[k]
                     /\ \A k \in high :
                           /\ out[k][1].c = s[k][1].c
                           /\ RatLeq(MinCenterDiff,
                                     RatAbs(RatSub(out[k][1].log, s[k][1].log)))

\* C13: adjust_scale returns a series equal to its input when fewer than 10 of its
\* cells are non-null and strictly positive, and when the two cluster centres of
\* the log10 values differ by less than 2.5.
C13_NoOpBelowThresholds ==
    SeriesDone("adjust_scale")
        => LET s == series[1].values
               centers == seriesOut[1].kmeans.centers
           IN  \/ Cardinality({k \in 1..Len(s) : ~IsNone(s[k]) /\ s[k][1].c.num > 0}) < 10
               \/ RatLess(RatAbs(RatSub(centers[1], centers[2])), [num |-> 5, den |-> 2])
               => seriesOut[1].value = s

\* ten or more positive cells in two distinct clusters less than 2.5 apart
C13_Witness ==
    /\ SeriesDone("adjust_scale")
    /\ Len(ValidIndex(series[1].values, 1)) >= 10
    /\ seriesOut[1].kmeans.centers[1] # seriesOut[1].kmeans.centers[2]
    /\ RatLess(FactorLog(seriesOut[1].kmeans.centers), [num |-> 5, den |-> 2])
    /\ seriesOut[1].value = series[1].values

\* the cells of a series that lie above median + 3 * std of its non-null values
AboveStdBound(s, vals, med) ==
    {k \in 1..Len(s) :
        /\ ~IsNone(s[k])
        /\ RatLess(med, Lin(s[k]))
        /\ RatLess(RatMul([num |-> 9, den |-> 1], Variance(vals)),
                   RatMul(RatSub(Lin(s[k]), med), RatSub(Lin(s[k]), med)))}

\* C14: when the median absolute deviation of the values of a series is exactly 0,
\* winsorize caps every value that lies beyond median + 3 * std to that bound.
C14_StdFallbackCaps ==
    SeriesDone("winsorize")
        => LET s == series[1].values
               vals == NonNull(s)
           IN  Len(vals) >= 2 /\ Median(AbsDev(vals, Median(vals))) = Zero
                  => \A k \in AboveStdBound(s, vals, Median(vals)) :
                        /\ seriesOut[1].value[k] # s[k]
                        /\ seriesOut[1].value[k] =
                              Some([c |-> Median(vals), log |-> Zero, side |-> 1,
                                    var |-> Variance(vals)])

\* C15: smooth_series returns a series of fewer than 5 points as it is: the same
\* values, in the same order, of the same length.
C15_ShortSeriesUnchanged ==
    SeriesDone("smooth_series") /\ Len(series[1].values) < 5
        => seriesOut[1].value = series[1].values

\* a series of four points, not all alike
C15_Witness ==
    /\ SeriesDone("smooth_series")
    /\ Len(series[1].values) = 4
    /\ series[1].values[1] # series[1].values[4]
    /\ seriesOut[1].value = series[1].values

----------------------------------------------------------------------------
(* Claims about the smoothed table, checked under Spec *)

----------------------------------------------------------------------------
(* Further claims about the field reconciler, checked under SpecField *)

\* the non-null values of the field in the attempt files base_dir holds for the
\* years next to the year of the call
StoreAdjacentValues ==
    LET call == fieldCall[1]
        holds(y, i, v) ==
            /\ FileAt(call.company, y, i).kind = "json"
            /\ Walk(Some(FileAt(call.company, y, i).doc), call.field_path, 1) = Some(v)
    IN  {v \in {0, 100} : \E y \in {call.year - 1, call.year + 1} :
                             \E i \in AttemptSet : holds(y, i, v)}

\* C19: when the adjacent years are consulted, every non-null value of the field
\* that an attempt file of year - 1 or year + 1 in the data store holds is among
\* the pooled adjacent values.
C19_AdjacentReadFromStore ==
    (~IsNone(fieldResult) /\ fieldResult[1].years # {})
        => \A v \in StoreAdjacentValues :
              \E k \in 1..Len(AdjacentFound) : AdjacentFound[k] = v

\* the current values within 20% of the adjacent mean num / den
CloseValues(values, num, den) ==
    SelectSeq(values, LAMBDA v : num # 0 /\ 5 * Abs(v * den - num) < Abs(num))

\* C20: when the discrepancy is 0.2 or more and adjacent values are found, the
\* result is the mean of the current values within 20% of the adjacent mean if
\* there is one, and the mean of all current non-null values otherwise.
C20_SmoothedOrFullMean ==
    (/\ ~IsNone(fieldResult)
     /\ CallValues # <<>>
     /\ SumSeq(CallValues) # 0
     /\ ~DiscrepancyBelow(CallValues)
     /\ AdjacentFound # <<>>)
        => LET close == CloseValues(CallValues, SumSeq(AdjacentFound), Len(AdjacentFound))
           IN  /\ ~fieldResult[1].raised
               /\ fieldResult[1].value =
                     IF close # <<>> THEN Some(Rat(SumSeq(close), Len(close)))
                     ELSE Some(Rat(SumSeq(CallValues), Len(CallValues)))

----------------------------------------------------------------------------
(* Claims about two runs of the pipeline, checked under SpecRerun *)

\* the rows of a company in a table that may not have been written
RowsOf(tbl, company) ==
    IF IsNone(tbl) THEN <<>>
    ELSE SelectSeq(tbl[1], LAMBDA row : row.company_name[1] = company)

\* C17: a second run of the pipeline on the unchanged attempt files ends with the
\* summaries and the tables of the first run, whatever the listing order of the
\* second run and with the outputs of the first run on disk.
C17_RerunIdentical ==
    (run = 2 /\ Completed /\ store = firstRun[1].store)
        => /\ summaries = firstRun[1].summaries
           /\ table = firstRun[1].table
           /\ smoothedTable = firstRun[1].smoothedTable

\* C18: two runs whose data stores hold the same attempt files of a company end
\* with the same summaries and the same raw and smoothed table rows of that
\* company, whatever the files of the other companies are.
C18_CompanyIndependent ==
    (run = 2 /\ Completed /\ listing = firstRun[1].listing)
        => \A company \in Companies :
              AgreeOn(store, firstRun[1].store, company)
                 => /\ \A u \in Units :
                          u[1] = company => summaries[u] = firstRun[1].summaries[u]
                    /\ RowsOf(table, company) = RowsOf(firstRun[1].table, company)
                    /\ RowsOf(smoothedTable, company)
                          = RowsOf(firstRun[1].smoothedTable, company)

----------------------------------------------------------------------------
(* Claims about the adjacent-year window, checked under SpecPool *)

\* the adjacent years were consulted by the call
LookedUp == ~IsNone(fieldResult) /\ fieldResult[1].years # {}

\* the attempts of a year of the company of the call that the lookup can load
LoadableAt(y) == load_year_reports(fieldCall[1].company, y)

\* their non-null values of the field, in attempt order
ValuesAt(y) == FieldValues(LoadableAt(y), fieldCall[1].field_path, 1)

\* C21: when year - 1 has no loadable attempt and year + 1 has one, the adjacent
\* pool is built from year + 1 and year + 2; when year + 1 has none and year - 1
\* has one, from year - 1 and year - 2; otherwise from year - 1 and year + 1
\* only; no year further than 2 away is read.
C21_WindowWidening ==
    LookedUp
        => LET y == fieldCall[1].year
               years == fieldResult[1].years
           IN  /\ \A t \in years : y - 2 <= t /\ t <= y + 2
               /\ IF LoadableAt(y - 1) = <<>> /\ LoadableAt(y + 1) # <<>>
                  THEN /\ AdjacentFound = ValuesAt(y + 1) \o ValuesAt(y + 2)
                       /\ y + 2 \in years /\ y - 2 \notin years
                  ELSE IF LoadableAt(y + 1) = <<>> /\ LoadableAt(y - 1) # <<>>
                  THEN /\ AdjacentFound = ValuesAt(y - 1) \o ValuesAt(y - 2)
                       /\ y - 2 \in years /\ y + 2 \notin years
                  ELSE /\ AdjacentFound = ValuesAt(y - 1) \o ValuesAt(y + 1)
                       /\ years = {y - 1, y + 1}

\* year - 1 holds nothing loadable, year + 1 and year + 2 each hold a value,
\* and both values are pooled
C21_Witness ==
    /\ LookedUp
    /\ LoadableAt(fieldCall[1].year - 1) = <<>>
    /\ ValuesAt(fieldCall[1].year + 1) # <<>>
    /\ ValuesAt(fieldCall[1].year + 2) # <<>>
    /\ Len(AdjacentFound) = 2
    /\ fieldCall[1].year + 2 \in fieldResult[1].years

\* C28: when the attempts of year - 1 all hold null for the field and year + 1
\* has attempts, year + 2 is not read and the pool holds the values of
\* year + 1 only.
C28_WideningOnAttempts ==
    (/\ LookedUp
     /\ LoadableAt(fieldCall[1].year - 1) # <<>>
     /\ ValuesAt(fieldCall[1].year - 1) = <<>>
     /\ LoadableAt(fieldCall[1].year + 1) # <<>>)
        => /\ fieldCall[1].year + 2 \notin fieldResult[1].years
           /\ AdjacentFound = ValuesAt(fieldCall[1].year + 1)

\* year - 1 holds a reading with a null revenue, year + 1 a revenue
C28_Witness ==
    /\ LookedUp
    /\ LoadableAt(fieldCall[1].year - 1) # <<>>
    /\ ValuesAt(fieldCall[1].year - 1) = <<>>
    /\ ValuesAt(fieldCall[1].year + 1) # <<>>
    /\ AdjacentFound = ValuesAt(fieldCall[1].year + 1)
    /\ fieldResult[1].years = {fieldCall[1].year - 1, fieldCall[1].year + 1}

----------------------------------------------------------------------------
(* Further claims about the series functions, checked under SpecSeries *)

\* the label the fit gave to the positive cell at position k of the series
LabelOf(s, labels, k) == labels[Cardinality({j \in 1..k : IsPositive(s[j])})]

\* C22: when the two cluster centres differ by at least 2.5, adjust_scale
\* multiplies every value of the cluster of the lower centre by
\* 10^|centre_high - centre_low| and returns every other cell (values of the
\* higher cluster, non-positive values, nulls) as it is.
C22_LowerClusterRescaled ==
    SeriesDone("adjust_scale")
        => LET s == series[1].values
               out == seriesOut[1].value
               centers == seriesOut[1].kmeans.centers
               labels == seriesOut[1].kmeans.labels
               d == RatAbs(RatSub(centers[1], centers[2]))
               lower == IF RatLess(centers[1], centers[2]) THEN 0 ELSE 1
           IN  (Len(labels) >= 10 /\ RatLeq([num |-> 5, den |-> 2], d))
                  => /\ Len(out) = Len(s)
                     /\ \A k \in 1..Len(s) :
                           IF IsPositive(s[k]) /\ LabelOf(s, labels, k) = lower
                           THEN out[k] = Val(s[k][1].c, RatAdd(s[k][1].log, d))
                           ELSE out[k] = s[k]

\* a rescaled series that holds a null, a non-positive value and both clusters
C22_Witness ==
    /\ SeriesDone("adjust_scale")
    /\ seriesOut[1].value # series[1].values
    /\ \E k \in 1..Len(series[1].values) : IsNone(series[1].values[k])
    /\ \E k \in 1..Len(series[1].values) :
          /\ ~IsNone(series[1].values[k])
          /\ series[1].values[k][1].c.num <= 0
          /\ seriesOut[1].value[k] = series[1].values[k]
    /\ \E k \in 1..Len(series[1].values) :
          /\ IsPositive(series[1].values[k])
          /\ seriesOut[1].value[k] = series[1].values[k]

\* the square of the spread of the band around the median: the MAD of the
\* non-null values, or their standard deviation when the MAD is 0
BandSq(vals) ==
    LET mad == Median(AbsDev(vals, Median(vals)))
    IN  IF mad # Zero THEN RatMul(mad, mad)
        ELSE IF Len(vals) >= 2 THEN Variance(vals) ELSE Zero

\* the bound of the band on one side of the median
BandBound(vals, side) ==
    LET mad == Median(AbsDev(vals, Median(vals)))
    IN  IF mad # Zero
        THEN Plain(RatAdd(Median(vals), RatMul([num |-> 3 * side, den |-> 1], mad)))
        ELSE Some([c |-> Median(vals), log |-> Zero, side |-> side, var |-> Variance(vals)])

\* C23: for every series, series with nulls included, winsorize returns every
\* non-null value that lies within 3 spreads of the median (both taken over the
\* non-null values) unchanged and replaces every other one by the nearer bound
\* of that band, so that every non-null value returned lies in the band.
C23_WinsorizedWithinBand ==
    SeriesDone("winsorize")
        => LET s == series[1].values
               out == seriesOut[1].value
               vals == NonNull(s)
           IN  /\ Len(out) = Len(s)
               /\ \A k \in 1..Len(s) :
                     IF IsNone(s[k]) THEN IsNone(out[k])
                     ELSE LET dev == RatSub(Lin(s[k]), Median(vals))
                              outside == RatLess(RatMul([num |-> 9, den |-> 1], BandSq(vals)),
                                                 RatMul(dev, dev))
                          IN  IF ~outside THEN out[k] = s[k]
                              ELSE out[k] = BandBound(vals, IF dev.num < 0 THEN -1 ELSE 1)

----------------------------------------------------------------------------
(* Claims about the order of the series stages, checked under SpecStage *)

\* the cells of a column of the rows of one company in the smoothed table
SmoothedColumn(company, name) ==
    LET rows == RowsOf(smoothedTable, company)
    IN  [k \in 1..Len(rows) |-> rows[k][name]]

\* the raw series of a column of one company, in the order of its years
RawSeries(company, col) == ColumnOf(table[1], GroupPos(table[1], company, 1), col)

\* C24: for every company and numeric column the smoothed companion holds
\* smooth_series(winsorize(adjust_scale(raw column))): the scale is adjusted
\* first, the outliers are capped next, the result is smoothed last.
C24_StageOrder ==
    smoothPc = "written"
        => \A company \in GroupKeys(table[1]) : \A col \in NumCols(table[1]) :
              \E kmeans \in KMeansOf(RawSeries(company, col)) :
                 SmoothedColumn(company, col \o "_smoothed")
                    = smooth_series(DatesOf(table[1], GroupPos(table[1], company, 1)),
                                    winsorize(adjust_scale(RawSeries(company, col), kmeans)))

\* a revenue series of company "A" that is rescaled, then capped, then fitted
C24_Witness ==
    /\ smoothPc = "written"
    /\ "revenue" \in NumCols(table[1])
    /\ \E kmeans \in KMeansOf(RawSeries("A", "revenue")) :
          LET adjusted == adjust_scale(RawSeries("A", "revenue"), kmeans)
          IN  /\ adjusted # RawSeries("A", "revenue")
              /\ winsorize(adjusted) # adjusted
              /\ winsorize(RawSeries("A", "revenue")) = RawSeries("A", "revenue")
              /\ smoothedTable[1][1].revenue_smoothed[1].endog = winsorize(adjusted)

----------------------------------------------------------------------------
(* Further claims about the field reconciler, checked under SpecField *)

\* C26: when the mean of the current non-null values is exactly 0 the
\* discrepancy is taken as 0, so the result is 0 and no adjacent year is
\* consulted, also when the values differ.
C26_ZeroMeanGivesZero ==
    (~IsNone(fieldResult) /\ CallValues # <<>> /\ SumSeq(CallValues) = 0)
        => /\ ~fieldResult[1].raised
           /\ fieldResult[1].value = Some(Rat(0, 1))
           /\ fieldResult[1].years = {}

\* C26 witness: -5 and 5 give 0 although an adjacent value is on disk
C26_Witness ==
    /\ ~IsNone(fieldResult)
    /\ CallValues \in {<<-5, 5>>, <<5, -5>>}
    /\ AdjacentFound # <<>>
    /\ fieldResult[1].value = Some(Rat(0, 1))
    /\ fieldResult[1].years = {}

\* C27: a non-null result of process_numeric_field lies between the minimum and
\* the maximum of the current-year non-null values, both included.
C27_ResultWithinCurrentRange ==
    (~IsNone(fieldResult) /\ ~fieldResult[1].raised /\ ~IsNone(fieldResult[1].value))
        => /\ CallValues # <<>>
           /\ MinSeq(CallValues) * fieldResult[1].value[1].den <= fieldResult[1].value[1].num
           /\ fieldResult[1].value[1].num <= MaxSeq(CallValues) * fieldResult[1].value[1].den

\* C27 witness: of 110 and 1000 the adjacent value 100 selects 110, and 100
\* itself lies below every current value
C27_Witness ==
    /\ ~IsNone(fieldResult)
    /\ CallValues \in {<<110, 1000>>, <<1000, 110>>}
    /\ AdjacentFound = <<100>>
    /\ fieldResult[1].value = Some(Rat(110, 1))

----------------------------------------------------------------------------
(* Further claims about the year summarizer, checked under SpecBatch *)

\* the values of a key, over the valid attempts of a unit whose group has it
HavingValues(u, g, key) ==
    LET docs == RemainingReports(u)
        RECURSIVE Pick(_)
        Pick(k) ==
            IF k > Len(docs) THEN <<>>
            ELSE (IF /\ ~IsNone(Get(docs[k], g))
                     /\ key \in DOMAIN docs[k][g][1]
                     /\ ~IsNone(docs[k][g][1][key])
                  THEN <<docs[k][g][1][key][1]>> ELSE <<>>)
                 \o Pick(k + 1)
    IN  Pick(1)

\* C29: the numeric keys of a summary are exactly the keys of the groups of the
\* primary attempt (a key that only another attempt has does not appear), and
\* each is reconciled over the values of all attempts that have it.
C29_KeysOfPrimary ==
    \A u \in Units :
        ~IsNone(summaries[u])
            => \A g \in GroupSet :
                  /\ DOMAIN summaries[u][1][g] = DOMAIN GroupData(ExpectedPrimaryDoc(u), g)
                  /\ \A key \in DOMAIN summaries[u][1][g] :
                        summaries[u][1][g][key]
                           = ReconcileValues(HavingValues(u, g, key), <<g, key>>,
                                             u[1], u[2]).value

\* C29 witness: the primary holds revenue 100 and no other_income, the second
\* attempt revenue 1000 and other_income 5: the summary has 550 and no other_income
C29_Witness ==
    \E u \in Units :
        /\ ~IsNone(summaries[u])
        /\ SlotKind(u, 1) = <<"reading", 1>>
        /\ SlotKind(u, 2) = <<"reading", 2>>
        /\ "other_income" \notin DOMAIN summaries[u][1].income_statement
        /\ summaries[u][1].income_statement["revenue"] = Some(Rat(550, 1))

\* C25: a summary is computed from the raw attempt files only: at every moment
\* of a run, whichever summaries of other years are already written, each
\* summary on disk is what process_year_reports computes from the data store.
C25_SummaryFromAttemptsOnly ==
    \A u \in Units :
        ~IsNone(summaries[u])
            => summaries[u] = process_year_reports(u[1], u[2]).summary

\* C25 witness: the first year of "A" was reconciled against the attempt of its
\* second year (100 chosen of 100 and 1000), whose summary is written as well
C25_Witness ==
    /\ ~IsNone(summaries[<<"A", 1>>])
    /\ ~IsNone(summaries[<<"A", 2>>])
    /\ <<(<<"income_statement", "revenue">>), 2>> \in consulted[<<"A", 1>>]
    /\ Cardinality(ValidAttempts(<<"A", 1>>)) = 2
    /\ summaries[<<"A", 1>>][1].income_statement["revenue"] = Some(Rat(100, 1))

----------------------------------------------------------------------------
(* Claims about the extraction stage, checked under SpecExtract *)

\* the attempts of a PDF that have a file in OUTPUT_PATH
OnDisk(pdf) == {i \in AttemptSet : store[OutputFile(pdf, i)] # Absent}

\* C30: at the end of every run each PDF has all three attempt files or none,
\* and a PDF with only some attempt files is not skipped by the run.
C30_AllAttemptsOrNone ==
    \A pdf \in PdfsOf(filenames) :
        /\ (exRun >= 1 /\ pending = {}) => OnDisk(pdf) \in {{}, AttemptSet}
        /\ (exRun >= 1 /\ extractLog[pdf] = "skipped") => OnDisk(pdf) = AttemptSet

====
